---------------------------- MODULE Spec2Model ----------------------------
(***************************************************************************)
(* Model of the kgg media-catalog API (src/main.rs).                       *)
(*                                                                         *)
(* The server keeps no state of its own: its state is the collection       *)
(* directory on disk, written by an external writer, and the request in    *)
(* flight.  Strings whose characters matter (file names, ids, duration     *)
(* texts) are sequences of one-character strings.                          *)
(***************************************************************************)
EXTENDS Integers, Sequences, FiniteSets, TLC

\* ------------------------------------------------------------------ bounds

\* Largest number of files the collection directory holds at once.
MaxFiles == 3
\* Largest number of files in the directory while requests race the writer.
MaxConcFiles == 1
\* Largest whole-second duration given to the duration codec.
MaxSecs == 7325

\* ---------------------------------------------------------- Option<T>

None == [some |-> FALSE]
Some(x) == [some |-> TRUE, val |-> x]

\* ------------------------------------------------ std::path::Path helpers

\* Index of the last '.' of a file name, 0 when there is none.
LastDot(file) ==
  LET dots == {i \in 1..Len(file) : file[i] = "."}
  IN IF dots = {} THEN 0 ELSE CHOOSE i \in dots : \A j \in dots : j <= i

\* std's rsplit_file_at_dot: (before, after) of the last '.'; a name that is
\* "..", or whose only '.' is its first character, has no extension.
rsplit_file_at_dot(file) ==
  IF file = <<".", ".">> THEN [before |-> Some(file), after |-> None]
  ELSE IF LastDot(file) = 0 THEN [before |-> None, after |-> Some(file)]
  ELSE IF LastDot(file) = 1 THEN [before |-> Some(file), after |-> None]
  ELSE [before |-> Some(SubSeq(file, 1, LastDot(file) - 1)),
        after |-> Some(SubSeq(file, LastDot(file) + 1, Len(file)))]

\* Path::file_stem: before.or(after).
file_stem(file) ==
  IF rsplit_file_at_dot(file).before.some
  THEN rsplit_file_at_dot(file).before
  ELSE rsplit_file_at_dot(file).after

\* Path::extension: before.and(after).
extension(file) ==
  IF rsplit_file_at_dot(file).before.some
  THEN rsplit_file_at_dot(file).after
  ELSE None

Json == <<"j", "s", "o", "n">>

\* Path::with_extension(ext) on the last component: the name is cut right
\* after its stem and "." ext is pushed.
with_extension(file, ext) == file_stem(file).val \o <<".">> \o ext

contains_dot(s) == \E i \in 1..Len(s) : s[i] = "."

\* get_json's test of a directory child's name.
IsCandidate(file) ==
  /\ extension(file) = Some(Json)
  /\ file_stem(file).some
  /\ ~contains_dot(file_stem(file).val)

\* ------------------------------------------------------ Duration codec

\* std::time::Duration: whole seconds and the nanoseconds below one second.
Dur(secs, nanos) == [secs |-> secs, nanos |-> nanos]

DigitChars == <<"0", "1", "2", "3", "4", "5", "6", "7", "8", "9">>
IsDigit(c) == \E i \in 1..10 : DigitChars[i] = c
DigitVal(c) == (CHOOSE i \in 1..10 : DigitChars[i] = c) - 1
IsWhitespace(c) == c = " "
IsLetter(c) ==
  c \in {"a", "b", "c", "d", "e", "h", "i", "j", "m", "n", "o", "r", "s", "t", "w", "x",
         "y", "M"}

\* format!("{n}") of an unsigned integer: its decimal digits.
RECURSIVE Decimal(_)
Decimal(n) ==
  IF n < 10 THEN <<DigitChars[n + 1]>>
  ELSE Decimal(n \div 10) \o <<DigitChars[(n % 10) + 1]>>

\* serialize_duration with the quotient used for the minutes not reduced
\* modulo one hour.
serialize_duration_minutes_not_reduced(dur) ==
  LET secs == dur.secs
      h == secs \div 3600
      m == secs \div 60
      s == secs % 60
  IN IF h > 0
     THEN Decimal(h) \o <<"h">> \o Decimal(m) \o <<"m">> \o Decimal(s) \o <<"s">>
     ELSE IF m > 0 THEN Decimal(m) \o <<"m">> \o Decimal(s) \o <<"s">>
     ELSE Decimal(s) \o <<"s">>

\* serialize_duration with zero components left out of the text.
serialize_duration_zero_parts_dropped(dur) ==
  LET secs == dur.secs
      h == secs \div 3600
      m == (secs % 3600) \div 60
      s == secs % 60
      hs == IF h > 0 THEN Decimal(h) \o <<"h">> ELSE <<>>
      ms == IF m > 0 THEN Decimal(m) \o <<"m">> ELSE <<>>
      ss == IF s > 0 \/ secs = 0 THEN Decimal(s) \o <<"s">> ELSE <<>>
  IN hs \o ms \o ss

\* serialize_duration: the text written for a Duration.
serialize_duration(dur) ==
  LET secs == dur.secs
      h == secs \div 3600
      m == (secs % 3600) \div 60
      s == secs % 60
  IN IF h > 0
     THEN Decimal(h) \o <<"h">> \o Decimal(m) \o <<"m">> \o Decimal(s) \o <<"s">>
     ELSE IF m > 0 THEN Decimal(m) \o <<"m">> \o Decimal(s) \o <<"s">>
     ELSE Decimal(s) \o <<"s">>

\* Result<Duration, _> and a panic of the conversion.
DOk(d) == [r |-> "ok", dur |-> d]
DErr == [r |-> "err"]
DPanic == [r |-> "panic"]

\* humantime's unit table (the units spelled with the model's letters):
\* seconds and nanoseconds one unit is worth, or None for an unknown unit.
UnitOf(u) ==
  IF u \in {<<"s">>, <<"s", "e", "c">>} THEN Some(Dur(1, 0))
  ELSE IF u \in {<<"m">>, <<"m", "i", "n">>} THEN Some(Dur(60, 0))
  ELSE IF u \in {<<"h">>, <<"h", "r">>} THEN Some(Dur(3600, 0))
  ELSE IF u = <<"d">> THEN Some(Dur(86400, 0))
  ELSE IF u = <<"w">> THEN Some(Dur(604800, 0))
  ELSE IF u = <<"M">> THEN Some(Dur(2630016, 0))
  ELSE IF u = <<"y">> THEN Some(Dur(31557600, 0))
  ELSE IF u = <<"m", "s">> THEN Some(Dur(0, 1000000))
  ELSE None

\* humantime's parse_unit: n units src[start..end) added to the running total.
parse_unit(cur, n, unit) ==
  IF ~UnitOf(unit).some THEN DErr
  ELSE LET u == UnitOf(unit).val
           nanos == cur.nanos + (n % 1000) * u.nanos
       IN DOk(Dur(cur.secs + n * u.secs + (IF u.nanos > 0 THEN n \div 1000 ELSE 0)
                    + nanos \div 1000000000,
                  nanos % 1000000000))

\* humantime's parse_first_char from position i: the first digit after any
\* whitespace ("digit"), the end of the text ("end"), or an error.
RECURSIVE parse_first_char(_, _)
parse_first_char(src, i) ==
  IF i > Len(src) THEN [k |-> "end"]
  ELSE IF IsDigit(src[i]) THEN [k |-> "digit", n |-> DigitVal(src[i]), next |-> i + 1]
  ELSE IF IsWhitespace(src[i]) THEN parse_first_char(src, i + 1)
  ELSE [k |-> "err"]

\* The number loop of humantime's Parser::parse: digits accumulate, whitespace
\* is skipped, a letter ends the number (start is its position).
RECURSIVE parse_number(_, _, _)
parse_number(src, i, n) ==
  IF i > Len(src) THEN [k |-> "ok", n |-> n, start |-> i]
  ELSE IF IsDigit(src[i]) THEN parse_number(src, i + 1, n * 10 + DigitVal(src[i]))
  ELSE IF IsWhitespace(src[i]) THEN parse_number(src, i + 1, n)
  ELSE IF IsLetter(src[i]) THEN [k |-> "ok", n |-> n, start |-> i]
  ELSE [k |-> "err"]

\* The unit loop: letters up to a digit (the next number starts), whitespace
\* or the end of the text; off is the position after the unit.
RECURSIVE parse_unit_end(_, _)
parse_unit_end(src, i) ==
  IF i > Len(src) THEN [k |-> "end", off |-> i]
  ELSE IF IsDigit(src[i]) THEN [k |-> "digit", off |-> i]
  ELSE IF IsWhitespace(src[i]) THEN [k |-> "space", off |-> i]
  ELSE IF IsLetter(src[i]) THEN parse_unit_end(src, i + 1)
  ELSE [k |-> "err"]

\* The outer loop of Parser::parse, entered with the first digit n read and
\* the reader at position i.
RECURSIVE parse_loop(_, _, _, _)
parse_loop(src, i, n, cur) ==
  LET num == parse_number(src, i, n)
  IN IF num.k = "err" THEN DErr
     ELSE LET ue == parse_unit_end(src, num.start + 1)
              off == IF num.start > Len(src) THEN num.start ELSE ue.off
              unit == SubSeq(src, num.start, off - 1)
              acc == parse_unit(cur, num.n, unit)
          IN IF num.start <= Len(src) /\ ue.k = "err" THEN DErr
             ELSE IF acc.r # "ok" THEN DErr
             ELSE IF num.start <= Len(src) /\ ue.k = "digit"
                  THEN parse_loop(src, off + 1, DigitVal(src[off]), acc.dur)
             ELSE LET fc == parse_first_char(src, off + 1)
                  IN IF fc.k = "err" THEN DErr
                     ELSE IF fc.k = "end" THEN acc
                     ELSE parse_loop(src, fc.next, fc.n, acc.dur)

\* humantime::parse_duration.
parse_duration(src) ==
  LET fc == parse_first_char(src, 1)
  IN IF fc.k = "digit" THEN parse_loop(src, fc.next, fc.n, Dur(0, 0)) ELSE DErr

\* ------------------------------------------------------- JSON payloads

\* The value found under a key of the payload's object.
JAbsent == [t |-> "absent"]
JNull == [t |-> "null"]
JBool(b) == [t |-> "bool", b |-> b]
JStr(s) == [t |-> "str", s |-> s]
\* A JSON number, in thousandths (90500 is 90.5).
JNum(millis) == [t |-> "num", millis |-> millis]
\* A JSON number beyond what a Duration holds (1e30).
JHuge == [t |-> "huge"]
\* A JSON string holding the RFC 3339 text of instant ts.
JTime(ts) == [t |-> "time", ts |-> ts]

\* What a path holds: nothing, something that cannot be read as text (a
\* directory, no permission, not UTF-8), text that is not JSON, or a JSON
\* object with these values under the keys of Entry.
NoFile == [kind |-> "absent"]
Unreadable == [kind |-> "unreadable"]
Garbage == [kind |-> "garbage"]
Obj(id, ts, duration, hidden) ==
  [kind |-> "json", id |-> id, title |-> JStr("title"), description |-> JAbsent,
   created_at |-> ts, duration |-> duration, hidden |-> hidden]

\* parse_duration_flex: a number is seconds, converted by
\* Duration::from_secs_f64, which panics on a negative or too large value; a
\* string goes through humantime::parse_duration; anything else is an error.
parse_duration_flex(v) ==
  IF v.t = "num"
  THEN IF v.millis < 0 THEN DPanic
       ELSE DOk(Dur(v.millis \div 1000, (v.millis % 1000) * 1000000))
  ELSE IF v.t = "huge" THEN DPanic
  ELSE IF v.t = "str" THEN parse_duration(v.s)
  ELSE DErr

\* ---------------------------------------------------------- Entry loader

\* Option<Entry>, or the panic of the load.
LNone == [r |-> "none"]
LSome(e) == [r |-> "some", entry |-> e]
LPanic == [r |-> "panic"]

\* The derived Deserialize of Entry on a payload object whose keys come in
\* the struct's order: a value of the wrong type is an error where it is met,
\* duration is converted when met, missing required keys are reported last.
DeserializeEntry(o) ==
  LET d == parse_duration_flex(o.duration)
  IN IF o.id.t \notin {"absent", "str"} \/ o.title.t \notin {"absent", "str"}
        \/ o.description.t \notin {"absent", "str"}
        \/ o.created_at.t \notin {"absent", "time"}
     THEN LNone
     ELSE IF o.duration.t # "absent" /\ d.r = "panic" THEN LPanic
     ELSE IF o.duration.t # "absent" /\ d.r = "err" THEN LNone
     ELSE IF o.hidden.t \notin {"absent", "null", "bool"} THEN LNone
     ELSE IF o.id.t = "absent" \/ o.title.t = "absent" \/ o.created_at.t = "absent"
             \/ o.duration.t = "absent"
          THEN LNone
     ELSE LSome([id |-> o.id.s, title |-> o.title.s,
                 description |-> IF o.description.t = "str" THEN o.description.s ELSE "",
                 created_at |-> o.created_at.ts, duration |-> d.dur,
                 hidden |-> IF o.hidden.t = "bool" THEN Some(o.hidden.b) ELSE None])

\* get_entry on what the path holds: read_to_string(path).ok()? and then
\* serde_json::from_str::<Entry>(..).ok().
get_entry(content) ==
  IF content.kind \in {"absent", "unreadable", "garbage"} THEN LNone
  ELSE DeserializeEntry(content)

\* get_json with the entry's id taken from the file's stem instead of the
\* payload.
get_json_id_from_stem(name, content) ==
  IF IsCandidate(name)
  THEN IF get_entry(content).r = "some"
       THEN LSome([get_entry(content).entry EXCEPT !.id = file_stem(name).val])
       ELSE get_entry(content)
  ELSE LNone

\* get_json: a directory child is loaded only when its name is a candidate.
get_json(name, content) ==
  IF IsCandidate(name) THEN get_entry(content) ELSE LNone

\* Serialize of Entry with hidden written only when it is Some(true).
SerializeEntry_hidden_only_if_true(e) ==
  [id |-> e.id, title |-> e.title, description |-> e.description,
   created_at |-> e.created_at, duration |-> serialize_duration(e.duration),
   hidden |-> IF e.hidden.some /\ e.hidden.val THEN JBool(TRUE) ELSE JAbsent]

\* The derived Serialize of Entry: duration through serialize_duration,
\* hidden skipped when it is None.
SerializeEntry(e) ==
  [id |-> e.id, title |-> e.title, description |-> e.description,
   created_at |-> e.created_at, duration |-> serialize_duration(e.duration),
   hidden |-> IF e.hidden.some THEN JBool(e.hidden.val) ELSE JAbsent]

\* ------------------------------------------------------------- the state

VARIABLES
  files,   \* what each name of the collection directory holds
  dirOk,   \* whether the collection directory can be opened
  pc,      \* where the request in flight (or the codec run) stands
  reqId,   \* the id of the single-entry request in flight
  resp,    \* the response of the request being answered
  dur,     \* the Duration given to the codec
  text,    \* its encoding
  back     \* the decoding of that text

vars == <<files, dirOk, pc, reqId, resp, dur, text, back>>

\* The names a child of the collection directory may have.
Names ==
  { <<"a", ".", "j", "s", "o", "n">>,
    <<"b", ".", "j", "s", "o", "n">>,
    <<"c", ".", "j", "s", "o", "n">>,
    <<"a", ".", "b", ".", "j", "s", "o", "n">>,
    <<"a", ".", "t", "x", "t">> }

\* The ids a single-entry request may name.
Ids == { <<"a">>, <<"b">>, <<"c">>, <<"a", ".", "b">> }

\* What the external writer may put under a name.
Contents ==
  { Obj(JStr(<<"a">>), JTime(1), JNum(90500), JAbsent),
    Obj(JStr(<<"b">>), JTime(2), JStr(<<"1", "h", "0", "m", "0", "s">>), JBool(FALSE)),
    Obj(JStr(<<"a">>), JTime(3), JStr(<<"9", "0", "s">>), JBool(TRUE)),
    Obj(JStr(<<"c">>), JTime(1), JStr(<<"2", "m">>), JNull),
    Obj(JAbsent, JTime(2), JNum(0), JAbsent),
    Obj(JStr(<<"b">>), JTime(2), JNum(-1000), JAbsent),
    Obj(JStr(<<"b">>), JTime(2), JStr(<<"1", "x">>), JAbsent),
    Garbage,
    Unreadable }

\* The names that are no candidates, and what the writer puts under them: a
\* valid visible Entry and one whose duration is a negative number.
OtherNames ==
  { <<"a", ".", "b", ".", "j", "s", "o", "n">>,
    <<"a", ".", "t", "x", "t">> }

OtherContents ==
  { Obj(JStr(<<"a">>), JTime(1), JNum(90500), JAbsent),
    Obj(JStr(<<"b">>), JTime(2), JNum(-1000), JAbsent) }

ContentsFor(name) == IF name \in OtherNames THEN OtherContents ELSE Contents

\* The sub-second parts given to the codec.
NanosSamples == {0, 500000000, 999999999}

Present == {n \in Names : files[n] # NoFile}

\* What the path <kind>/<name> holds.
FileAt(name) == IF name \in Names THEN files[name] ELSE NoFile

\* The orders in which read_dir may yield the children S.
Orders(S) ==
  {o \in [1..Cardinality(S) -> S] : \A i, j \in 1..Cardinality(S) : o[i] = o[j] => i = j}

\* -------------------------------------------------------------- handlers

\* What a handler ends with: Ok(value), Err(Status) or a panic.
HOk(v) == [r |-> "ok", val |-> v]
HErr(status) == [r |-> "err", status |-> status]
HPanic == [r |-> "panic"]

\* sort_by_key that leaves the entries as read_dir yielded them.
sort_by_key_reverse_created_at_unsorted(entries) == entries

\* Vec::sort_by_key(|e| Reverse(e.created_at)): a stable sort, the most
\* recent first.
RECURSIVE sort_by_key_reverse_created_at(_)
sort_by_key_reverse_created_at(entries) ==
  IF Len(entries) <= 1 THEN entries
  ELSE LET n == Len(entries)
           init == sort_by_key_reverse_created_at(SubSeq(entries, 1, n - 1))
           e == entries[n]
           keep == {i \in 1..Len(init) : init[i].created_at >= e.created_at}
           k == Cardinality(keep)
       IN SubSeq(init, 1, k) \o <<e>> \o SubSeq(init, k + 1, Len(init))

\* The entries of get_entries' iterator chain before the sort: each child in
\* turn through get_json, then the hidden filter.
RECURSIVE LoadAll(_)
LoadAll(order) ==
  IF Len(order) = 0 THEN <<>>
  ELSE LET l == get_json(order[1], files[order[1]])
       IN IF l.r = "some" /\ ~(l.entry.hidden.some /\ l.entry.hidden.val)
          THEN <<l.entry>> \o LoadAll(Tail(order))
          ELSE LoadAll(Tail(order))

\* get_entries, read_dir yielding the children in this order.
get_entries(order) ==
  IF ~dirOk THEN HErr(500)
  ELSE IF \E i \in 1..Len(order) : get_json(order[i], files[order[i]]).r = "panic"
       THEN HPanic
  ELSE HOk(sort_by_key_reverse_created_at(LoadAll(order)))

\* The lists handler.
lists(order) ==
  LET got == get_entries(order)
  IN IF got.r = "ok"
     THEN HOk([i \in 1..Len(got.val) |-> SerializeEntry(got.val[i])])
     ELSE got

\* The path entry() computes, below the collection directory.
EntryPath(id) == with_extension(id, Json)

\* The second half of entry(), which maps a failed load to 404 when the file
\* is gone.
entry_load_absent_is_404(content) ==
  LET l == get_entry(content)
  IN IF l.r = "panic" THEN HPanic
     ELSE IF l.r = "some" THEN HOk(SerializeEntry(l.entry))
     ELSE IF content = NoFile THEN HErr(404)
     ELSE HErr(500)

\* The second half of entry(): get_entry(path).ok_or(InternalServerError).
entry_load(content) ==
  LET l == get_entry(content)
  IN IF l.r = "panic" THEN HPanic
     ELSE IF l.r = "some" THEN HOk(SerializeEntry(l.entry))
     ELSE HErr(500)

\* entry() with the listing's hidden filter applied to the lookup.
entry_hidden_filtered(id) ==
  LET c == FileAt(EntryPath(id))
      l == get_entry(c)
  IN IF c = NoFile THEN HErr(404)
     ELSE IF l.r = "some" /\ l.entry.hidden.some /\ l.entry.hidden.val THEN HErr(404)
     ELSE entry_load(c)

\* The entry handler, run without interruption.
entry(id) ==
  IF FileAt(EntryPath(id)) # NoFile
  THEN entry_load(FileAt(EntryPath(id)))
  ELSE HErr(404)

\* default_catcher's body.
ErrorStatus(code) == [error |-> code]

\* What the client gets: the value as JSON with 200, the catcher's body with
\* the handler's status, or, the handler having panicked, with 500.
NoResp == [op |-> "none"]
Response(op, id, result) ==
  [op |-> op, id |-> id, path |-> IF op = "entry" THEN EntryPath(id) ELSE <<>>,
   handler |-> result.r,
   status |-> IF result.r = "ok" THEN 200 ELSE IF result.r = "err" THEN result.status ELSE 500,
   body |-> IF result.r = "ok" THEN result.val
            ELSE ErrorStatus(IF result.r = "err" THEN result.status ELSE 500)]

\* ------------------------------------------------------ the file system

\* The external writer creates or rewrites a file; the directory holds at
\* most limit files.
WriteFile(name, content, limit) ==
  /\ dirOk
  /\ files[name] # content
  /\ files[name] # NoFile \/ Cardinality(Present) < limit
  /\ files' = [files EXCEPT ![name] = content]
  /\ UNCHANGED <<dirOk, pc, reqId, resp, dur, text, back>>

\* The external writer removes a file.
RemoveFile(name) ==
  /\ files[name] # NoFile
  /\ files' = [files EXCEPT ![name] = NoFile]
  /\ UNCHANGED <<dirOk, pc, reqId, resp, dur, text, back>>

\* The external writer removes the (empty) collection directory.
RemoveDir ==
  /\ dirOk
  /\ Present = {}
  /\ dirOk' = FALSE
  /\ UNCHANGED <<files, pc, reqId, resp, dur, text, back>>

\* The external writer creates the collection directory.
CreateDir ==
  /\ ~dirOk
  /\ dirOk' = TRUE
  /\ UNCHANGED <<files, pc, reqId, resp, dur, text, back>>

\* No request is in flight or being answered.
Quiet == pc = "idle" /\ resp = NoResp

\* ------------------------------------------------------------- requests

\* GET /api/<kind>: the lists handler, read_dir yielding some order.
Lists ==
  /\ Quiet
  /\ \E order \in Orders(Present) : resp' = Response("lists", <<>>, lists(order))
  /\ UNCHANGED <<files, dirOk, pc, reqId, dur, text, back>>

\* GET /api/<kind>/<id>: the entry handler.
Entry(id) ==
  /\ Quiet
  /\ resp' = Response("entry", id, entry(id))
  /\ UNCHANGED <<files, dirOk, pc, reqId, dur, text, back>>

\* The first half of the entry handler: path.exists().
EntryCheck(id) ==
  /\ Quiet
  /\ IF FileAt(EntryPath(id)) # NoFile
     THEN pc' = "checked" /\ reqId' = id /\ resp' = resp
     ELSE pc' = pc /\ reqId' = reqId /\ resp' = Response("entry", id, HErr(404))
  /\ UNCHANGED <<files, dirOk, dur, text, back>>

\* The second half of the entry handler: get_entry(path) and its mapping.
EntryLoad ==
  /\ pc = "checked"
  /\ pc' = "idle"
  /\ reqId' = <<>>
  /\ resp' = Response("entry", reqId, entry_load(FileAt(EntryPath(reqId))))
  /\ UNCHANGED <<files, dirOk, dur, text, back>>

\* The response is written out and the request ends.
Respond ==
  /\ resp # NoResp
  /\ resp' = NoResp
  /\ UNCHANGED <<files, dirOk, pc, reqId, dur, text, back>>

\* ---------------------------------------------------------------- codec

\* serialize_duration on the Duration.
Encode ==
  /\ pc = "start"
  /\ text' = serialize_duration(dur)
  /\ pc' = "encoded"
  /\ UNCHANGED <<files, dirOk, reqId, resp, dur, back>>

\* parse_duration_flex on the text as a JSON string.
Decode ==
  /\ pc = "encoded"
  /\ back' = parse_duration_flex(JStr(text))
  /\ pc' = "decoded"
  /\ UNCHANGED <<files, dirOk, reqId, resp, dur, text>>

\* -------------------------------------------------------- specifications

InitServer ==
  /\ files = [n \in Names |-> NoFile]
  /\ dirOk = TRUE
  /\ pc = "idle"
  /\ reqId = <<>>
  /\ resp = NoResp
  /\ dur = Dur(0, 0)
  /\ text = <<>>
  /\ back = DErr

\* Requests served one at a time, the writer acting between them.
Next ==
  \/ Quiet /\ \E n \in Names : \E c \in ContentsFor(n) : WriteFile(n, c, MaxFiles)
  \/ Quiet /\ \E n \in Names : RemoveFile(n)
  \/ Quiet /\ RemoveDir
  \/ Quiet /\ CreateDir
  \/ Lists
  \/ \E id \in Ids : Entry(id)
  \/ Respond

Spec == InitServer /\ [][Next]_vars

\* Single-entry requests with the writer acting at any moment.
NextConc ==
  \/ \E n \in Names : \E c \in ContentsFor(n) : WriteFile(n, c, MaxConcFiles)
  \/ \E n \in Names : RemoveFile(n)
  \/ \E id \in Ids : EntryCheck(id)
  \/ EntryLoad
  \/ Respond

SpecConc == InitServer /\ [][NextConc]_vars

InitCodec ==
  /\ files = [n \in Names |-> NoFile]
  /\ dirOk = TRUE
  /\ pc = "start"
  /\ reqId = <<>>
  /\ resp = NoResp
  /\ dur \in {Dur(s, n) : s \in 0..MaxSecs, n \in NanosSamples}
  /\ text = <<>>
  /\ back = DErr

NextCodec ==
  \/ Encode
  \/ Decode

SpecCodec == InitCodec /\ [][NextCodec]_vars

\* --------------------------------------------------- the claims' terms

\* A candidate file as the specification words it: the name ends in ".json"
\* and what precedes that extension holds no further '.'.
NamedAsCandidate(name) ==
  /\ Len(name) >= 5
  /\ SubSeq(name, Len(name) - 4, Len(name)) = <<".">> \o Json
  /\ ~contains_dot(SubSeq(name, 1, Len(name) - 5))

\* A duration value the Duration Codec decodes: a non-negative number of
\* seconds or a text of the compact grammar.
DurationDecodable(v) ==
  \/ v.t = "num" /\ v.millis >= 0
  \/ v.t = "str" /\ parse_duration(v.s).r = "ok"

\* A file that holds a valid Entry: a JSON object with the required keys.
ValidEntryFile(c) ==
  /\ c.kind = "json"
  /\ c.id.t = "str"
  /\ c.title.t = "str"
  /\ c.created_at.t = "time"
  /\ DurationDecodable(c.duration)
  /\ c.hidden.t \in {"absent", "null", "bool"}

HiddenInFile(c) == c.hidden = JBool(TRUE)

\* The id and instant by which an entry of a response is matched to a file.
KeyOfFile(c) == [id |-> c.id.s, created_at |-> c.created_at.ts]
KeyOfOutput(e) == [id |-> e.id, created_at |-> e.created_at]

ListedOk == resp.op = "lists" /\ resp.status = 200
EntryOk == resp.op = "entry" /\ resp.status = 200

\* ------------------------------------------------------------------- C1

\* C1: whatever the collection directory holds, listEntries returns exactly
\* the entries of the candidate files that hold a valid Entry and are not
\* hidden.
C1_ListsExactlyVisibleCandidates ==
  (resp.op = "lists" /\ dirOk) =>
    LET expected == {n \in Present : /\ NamedAsCandidate(n)
                                     /\ ValidEntryFile(files[n])
                                     /\ ~HiddenInFile(files[n])}
    IN /\ resp.status = 200
       /\ Len(resp.body) = Cardinality(expected)
       /\ {KeyOfOutput(resp.body[i]) : i \in 1..Len(resp.body)}
            = {KeyOfFile(files[n]) : n \in expected}

\* ------------------------------------------------------------------- C2

\* C2: every successful listing is non-increasing in created_at, whatever
\* the order in which the directory was enumerated.
C2_ListingNonIncreasing ==
  ListedOk =>
    \A i, j \in 1..Len(resp.body) :
      i < j => resp.body[i].created_at >= resp.body[j].created_at

\* A listing of three entries whose instants differ.
C2_Witness ==
  /\ ListedOk
  /\ Len(resp.body) = 3
  /\ resp.body[1].created_at > resp.body[3].created_at

\* ------------------------------------------------------------------- C3

\* C3: getEntry answers 404 when the computed path does not exist, 500 when
\* it exists but does not load, and 200 with the entry when it loads, hidden
\* or not.
C3_EntryOutcomes ==
  resp.op = "entry" =>
    LET c == FileAt(resp.path)
    IN /\ c = NoFile => resp.status = 404 /\ resp.body = ErrorStatus(404)
       /\ (c # NoFile /\ ~ValidEntryFile(c)) =>
            resp.status = 500 /\ resp.body = ErrorStatus(500)
       /\ ValidEntryFile(c) =>
            /\ resp.status = 200
            /\ KeyOfOutput(resp.body) = KeyOfFile(c)
            /\ resp.body.title = c.title.s

\* getEntry answering 200 with an entry whose file says hidden: true.
C3_Witness ==
  /\ EntryOk
  /\ HiddenInFile(FileAt(resp.path))
  /\ resp.body.hidden = JBool(TRUE)

\* ------------------------------------------------------------------- C4

\* C4: listEntries fails with 500 if and only if the collection directory
\* cannot be opened; no candidate file that fails to load makes it fail.
C4_ScanFailsIffDirUnopenable ==
  resp.op = "lists" => (resp.status = 500 <=> ~dirOk)

\* ------------------------------------------------------------------- C5

\* C5: n whole seconds encode as "{h}h{m}m{s}s" when h > 0, "{m}m{s}s" when
\* h = 0 and m > 0, "{s}s" otherwise, the sub-second part playing no role;
\* with the examples the specification lists.
C5_EncodeFormat ==
  pc \in {"encoded", "decoded"} =>
    LET n == dur.secs
        h == n \div 3600
        m == (n % 3600) \div 60
        s == n % 60
        hh == Decimal(h) \o <<"h">>
        mm == Decimal(m) \o <<"m">>
        ss == Decimal(s) \o <<"s">>
    IN /\ h > 0 => text = hh \o mm \o ss
       /\ (h = 0 /\ m > 0) => text = mm \o ss
       /\ (h = 0 /\ m = 0) => text = ss
       /\ n = 0 => text = <<"0", "s">>
       /\ n = 61 => text = <<"1", "m", "1", "s">>
       /\ n = 90 => text = <<"1", "m", "3", "0", "s">>
       /\ n = 3600 => text = <<"1", "h", "0", "m", "0", "s">>
       /\ n = 3661 => text = <<"1", "h", "1", "m", "1", "s">>
       /\ n = 7325 => text = <<"2", "h", "2", "m", "5", "s">>

\* 7325.999999999 s encoded as "2h2m5s".
C5_Witness ==
  /\ pc = "encoded"
  /\ dur = Dur(7325, 999999999)
  /\ text = <<"2", "h", "2", "m", "5", "s">>

\* ------------------------------------------------------------------- C6

\* C6: decoding the text encode produced for d succeeds and yields d
\* truncated to whole seconds.
C6_RoundTrip ==
  pc = "decoded" => back = DOk(Dur(dur.secs, 0))

\* 3600.5 s encoded as "1h0m0s" and decoded as 3600 s.
C6_Witness ==
  /\ pc = "decoded"
  /\ dur = Dur(3600, 500000000)
  /\ text = <<"1", "h", "0", "m", "0", "s">>
  /\ back = DOk(Dur(3600, 0))

\* ------------------------------------------------------------------- C7

\* The file an entry of a response was loaded from: a candidate file that
\* holds a valid Entry with that id and instant.
SourcesOf(e) ==
  {n \in Present : /\ IsCandidate(n)
                   /\ ValidEntryFile(files[n])
                   /\ KeyOfFile(files[n]) = KeyOfOutput(e)}

\* C7 as stated: in the JSON output of an Entry the hidden field is present
\* only if hidden was true in the source file, and is omitted when hidden was
\* absent there.
C7_HiddenEmittedOnlyIfTrue ==
  /\ EntryOk =>
       /\ resp.body.hidden # JAbsent => FileAt(resp.path).hidden = JBool(TRUE)
       /\ FileAt(resp.path).hidden = JAbsent => resp.body.hidden = JAbsent
  /\ ListedOk =>
       \A i \in 1..Len(resp.body) :
         resp.body[i].hidden # JAbsent =>
           \E n \in SourcesOf(resp.body[i]) : files[n].hidden = JBool(TRUE)

\* What the output carries for a file's hidden value.
HiddenEmittedFor(c) == IF c.hidden.t = "bool" THEN c.hidden ELSE JAbsent

\* C7 amended: the hidden field is present in the output exactly when the
\* source file gives hidden a boolean, true or false, and then carries that
\* boolean; it is omitted when hidden is absent (or null) in the source file.
C7_HiddenEmittedIffBoolInSource ==
  /\ EntryOk => resp.body.hidden = HiddenEmittedFor(FileAt(resp.path))
  /\ ListedOk =>
       \A i \in 1..Len(resp.body) :
         \E n \in SourcesOf(resp.body[i]) :
           resp.body[i].hidden = HiddenEmittedFor(files[n])

\* A listing that carries hidden: false for one entry and omits it for another.
C7_Witness ==
  /\ ListedOk
  /\ Len(resp.body) = 2
  /\ resp.body[1].hidden = JBool(FALSE)
  /\ resp.body[2].hidden = JAbsent

\* ------------------------------------------------------------------- C8

\* C8 as stated: the id of every Entry returned is the stem of the file it
\* was loaded from (for getEntry, the requested id), a file loads without an
\* id in its payload, and the ids of one listing are pairwise distinct.
C8_IdIsFileStem ==
  /\ EntryOk =>
       /\ resp.body.id = resp.id
       /\ resp.body.id = file_stem(resp.path).val
  /\ (/\ resp.op = "entry"
      /\ FileAt(resp.path).kind = "json"
      /\ FileAt(resp.path).id = JAbsent
      /\ DurationDecodable(FileAt(resp.path).duration)) => resp.status = 200
  /\ ListedOk =>
       /\ \A i \in 1..Len(resp.body) :
            \E n \in Present : IsCandidate(n) /\ resp.body[i].id = file_stem(n).val
       /\ \A i, j \in 1..Len(resp.body) :
            resp.body[i].id = resp.body[j].id => i = j

\* C8 amended: the id of every Entry returned is the id string stored in the
\* JSON payload of the file it was loaded from; a file whose payload has no
\* id does not load (500 from getEntry, no entry in a listing); the id is
\* not compared with the file name, so it may differ from the stem and from
\* the requested id, and may repeat within one listing.
C8_IdIsPayloadId ==
  /\ EntryOk =>
       /\ FileAt(resp.path).kind = "json"
       /\ FileAt(resp.path).id = JStr(resp.body.id)
  /\ (/\ resp.op = "entry"
      /\ FileAt(resp.path).kind = "json"
      /\ FileAt(resp.path).id = JAbsent) => resp.status = 500
  /\ ListedOk =>
       /\ \A i \in 1..Len(resp.body) : SourcesOf(resp.body[i]) # {}
       /\ Len(resp.body) <= Cardinality({n \in Present : /\ IsCandidate(n)
                                                          /\ files[n].kind = "json"
                                                          /\ files[n].id.t = "str"})

\* A listing of two entries with the same id, which is the stem of no file.
C8_Witness ==
  /\ ListedOk
  /\ Len(resp.body) = 2
  /\ resp.body[1].id = resp.body[2].id
  /\ \A n \in Present : file_stem(n).val # resp.body[1].id

\* ------------------------------------------------------------------- C9

\* C9: getEntry(kind, id) consults exactly the file <kind>/<id>.json, the id
\* with ".json" appended, also when the id holds a '.'.
C9_PathIsIdDotJson ==
  resp.op = "entry" => resp.path = resp.id \o <<".">> \o Json

\* ------------------------------------------------------------------ C10

=============================================================================
